---- MODULE Spec2Model ----
(***************************************************************************)
(* The bulk contact import pipeline of the contact-management backend:     *)
(* upload_contacts (src/main.py) over the contacts table and               *)
(* Database.executemany (src/db/database.py).                              *)
(*                                                                         *)
(* A Python str is a sequence of one-character strings, so that strip(),   *)
(* lower(), upper(), strptime() and isoformat() are computed, not assumed. *)
(* Python's None is the one-element sequence <<"None">>, which is no       *)
(* string of the model because "None" is not a single character.           *)
(***************************************************************************)
EXTENDS Integers, Sequences, FiniteSets, TLC

\* ------------------------------------------------------------------ bounds
\* The longest uploaded file, in data rows.
MaxRows == 2
\* The number of upload_contacts invocations of one behaviour.
MaxImports == 2

\* The contacts create_contact stores in one behaviour.
MaxCreates == 1

\* ----------------------------------------------------------------- strings
None == <<"None">>

Whitespace == {" ", "\t"}

Uppers == <<"A","B","C","D","E","F","G","H","I","J","K","L","M",
            "N","O","P","Q","R","S","T","U","V","W","X","Y","Z">>
Lowers == <<"a","b","c","d","e","f","g","h","i","j","k","l","m",
            "n","o","p","q","r","s","t","u","v","w","x","y","z">>

\* str.lower() of one character.
lower_char(c) ==
    IF \E i \in 1..26 : Uppers[i] = c
    THEN Lowers[CHOOSE i \in 1..26 : Uppers[i] = c]
    ELSE c

\* str.upper() of one character.
upper_char(c) ==
    IF \E i \in 1..26 : Lowers[i] = c
    THEN Uppers[CHOOSE i \in 1..26 : Lowers[i] = c]
    ELSE c

lower(s) == [i \in 1..Len(s) |-> lower_char(s[i])]

upper(s) == [i \in 1..Len(s) |-> upper_char(s[i])]

\* str.strip(): the string without its leading and trailing whitespace.
strip(s) ==
    LET keep == {i \in 1..Len(s) : s[i] \notin Whitespace}
    IN  IF keep = {} THEN <<>>
        ELSE LET lo == CHOOSE i \in keep : \A j \in keep : i <= j
                 hi == CHOOSE i \in keep : \A j \in keep : j <= i
             IN  SubSeq(s, lo, hi)

\* ------------------------------------------------------------------- dates
Digits == <<"0","1","2","3","4","5","6","7","8","9">>

IsDigit(c) == \E i \in 1..10 : Digits[i] = c

DigitVal(c) == (CHOOSE i \in 1..10 : Digits[i] = c) - 1

\* The value of a string of digits.
RECURSIVE int_of(_)
int_of(s) ==
    IF s = <<>> THEN 0
    ELSE 10 * int_of(SubSeq(s, 1, Len(s) - 1)) + DigitVal(s[Len(s)])

AllDigits(s) == \A i \in 1..Len(s) : IsDigit(s[i])

IsLeap(y) == (y % 4 = 0 /\ y % 100 # 0) \/ y % 400 = 0

DaysInMonth(y, m) ==
    IF m = 2 THEN (IF IsLeap(y) THEN 29 ELSE 28)
    ELSE IF m \in {4, 6, 9, 11} THEN 30 ELSE 31

\* The positions of the "-" characters of s.
Dashes(s) == {i \in 1..Len(s) : s[i] = "-"}

NoDate == [ok |-> FALSE, year |-> 0, month |-> 0, day |-> 0]

\* datetime.strptime(s, '%Y-%m-%d').date(); ok is FALSE where strptime
\* raises ValueError.  %Y is four digits, %m is 1..12 and %d is 1..31 in one
\* or two digits, nothing may follow the day, and the day must exist in the
\* month.
strptime(s) ==
    IF Cardinality(Dashes(s)) # 2 THEN NoDate
    ELSE
      LET d1 == CHOOSE i \in Dashes(s) : \A j \in Dashes(s) : i <= j
          d2 == CHOOSE i \in Dashes(s) : \A j \in Dashes(s) : j <= i
          ys == SubSeq(s, 1, d1 - 1)
          ms == SubSeq(s, d1 + 1, d2 - 1)
          ds == SubSeq(s, d2 + 1, Len(s))
      IN  IF /\ Len(ys) = 4 /\ AllDigits(ys)
             /\ Len(ms) \in {1, 2} /\ AllDigits(ms)
             /\ Len(ds) \in {1, 2} /\ AllDigits(ds)
             /\ int_of(ys) >= 1
             /\ int_of(ms) \in 1..12
             /\ int_of(ds) >= 1
             /\ int_of(ds) <= DaysInMonth(int_of(ys), int_of(ms))
          THEN [ok |-> TRUE, year |-> int_of(ys), month |-> int_of(ms), day |-> int_of(ds)]
          ELSE NoDate

\* n written in exactly w decimal digits (n < 10^w).
RECURSIVE zero_pad(_, _)
zero_pad(n, w) ==
    IF w = 0 THEN <<>>
    ELSE Append(zero_pad(n \div 10, w - 1), Digits[(n % 10) + 1])

\* date.isoformat(): YYYY-MM-DD.
isoformat(d) ==
    zero_pad(d.year, 4) \o <<"-">> \o zero_pad(d.month, 2) \o <<"-">> \o zero_pad(d.day, 2)


\* ------------------------------------------------------- program constants
\* required_fields_ordered: the ten required columns, in report order.
required_fields_ordered ==
    << "First Name", "Last Name", "Email", "Current Carrier", "Plan Type",
       "Effective Date", "Birth Date", "Tobacco User", "Gender", "ZIP Code" >>

required_fields == {required_fields_ordered[i] : i \in 1..Len(required_fields_ordered)}

\* The number of "?" placeholders of either INSERT statement.
NUM_PLACEHOLDERS == 11

\* The position of the email column among the inserted columns.
EMAIL_COLUMN == 3

\* Values tobacco_user is true for.
TOBACCO_TRUE == { <<"y","e","s">>, <<"t","r","u","e">>, <<"1">>, <<"y">> }

\* Genders the validator lets through.
GENDERS == { <<"M">>, <<"F">> }

\* The columns of the contacts table under a UNIQUE or PRIMARY KEY constraint
\* that an import supplies a value for: none (id is generated, email is
\* declared TEXT NOT NULL without UNIQUE, idx_contacts_email is a plain index).
contacts_unique_columns == {}

\* ------------------------------------------------------------------ inputs
\* zipData.json as loaded at start-up, and the table after a failed load.
ZipTable == [z \in { <<"1">>, <<"2">> } |->
                 [state |-> IF z = <<"1">> THEN <<"C","A">> ELSE <<"N","Y">>]]

EmptyZipTable == [z \in {} |-> [state |-> <<>>]]

BaseRow ==
    [f \in required_fields |->
        CASE f = "First Name"      -> <<"A","l">>
          [] f = "Last Name"       -> <<"B","o">>
          [] f = "Email"           -> <<"a","@","x">>
          [] f = "Current Carrier" -> <<"C">>
          [] f = "Plan Type"       -> <<"N">>
          [] f = "Effective Date"  -> <<"2","0","2","4","-","0","1","-","0","5">>
          [] f = "Birth Date"      -> <<"1","9","5","0","-","2","-","9">>
          [] f = "Tobacco User"    -> <<"Y","e","s">>
          [] f = "Gender"          -> <<"M">>
          [] f = "ZIP Code"        -> <<"1">>]

\* A valid row with the email a@x.
RowA == BaseRow

\* A valid row whose values need trimming and case folding; same email as RowA.
RowA2 ==
    [BaseRow EXCEPT !["First Name"] = <<" ","A","l"," ">>,
                    !["Email"] = <<" ","A","@","x">>,
                    !["Gender"] = <<" ","f">>,
                    !["Tobacco User"] = <<"n","o">>,
                    !["ZIP Code"] = <<"2"," ">>]

\* A valid row with the email b@x.
RowB ==
    [BaseRow EXCEPT !["Email"] = <<"b","@","x">>,
                    !["Gender"] = <<"F">>,
                    !["Tobacco User"] = <<"1">>,
                    !["ZIP Code"] = <<"2">>]

\* A blank required value and a ZIP code the table does not hold.
RowMissingAndBadZip ==
    [BaseRow EXCEPT !["First Name"] = <<" ">>, !["ZIP Code"] = <<"9">>]

\* A ZIP code the table does not hold.
RowBadZip ==
    [BaseRow EXCEPT !["Email"] = <<"b","@","x">>, !["ZIP Code"] = <<"9">>]

\* A gender other than M or F.
RowBadGender == [BaseRow EXCEPT !["Gender"] = <<"x">>]

\* The email a@x and an effective date that is no calendar date.
RowBadDate ==
    [BaseRow EXCEPT !["Effective Date"] = <<"2","0","2","4","-","0","2","-","3","0">>]

\* A line with fewer fields than the header: csv.DictReader gives the
\* missing columns the value None.
RowShort == [BaseRow EXCEPT !["Gender"] = None, !["ZIP Code"] = None]

Rows == { RowA, RowA2, RowB, RowMissingAndBadZip, RowBadZip, RowBadGender,
          RowBadDate, RowShort }

RowSeqs == UNION { [1..n -> Rows] : n \in 0..MaxRows }

\* An upload whose bytes do not decode, and an upload of zero bytes.
UndecodableFile == [kind |-> "undecodable", header |-> {}, rows |-> <<>>]

EmptyFile == [kind |-> "empty", header |-> {}, rows |-> <<>>]

CsvFile(header, rows) == [kind |-> "csv", header |-> header, rows |-> rows]

\* Headers that lack required columns.
BadHeaders == { required_fields \ {"Email"},
                required_fields \ {"Email", "ZIP Code"} }

\* A row as csv.DictReader yields it under a header: one value per column.
RowUnder(header, row) == [f \in header |-> row[f]]

Files ==
    {UndecodableFile, EmptyFile}
    \cup { CsvFile(required_fields \cup {"Notes"}, rs) : rs \in RowSeqs }
    \cup { CsvFile(h, <<>>) : h \in BadHeaders }
    \cup { CsvFile(h, <<RowUnder(h, RowA)>>) : h \in BadHeaders }

\* A contact stored earlier through POST /api/contacts, which stores the
\* email as given (here in upper case).
StoredContactA ==
    << <<"A","n","n">>, <<"B","o">>, <<"A","@","x">>, <<"C">>, <<"N">>,
       <<"2","0","2","0","-","0","1","-","0","1">>,
       <<"1","9","4","0","-","0","1","-","0","1">>, 0, <<"F">>, <<"C","A">>, <<"1">> >>

InitStores == { <<>>, <<StoredContactA>> }

\* The ZIP table and the contacts table a behaviour starts from: the loaded
\* table with either store, the table of a failed load with the empty store.
InitConfigs ==
    { <<ZipTable, db>> : db \in InitStores } \cup { <<EmptyZipTable, <<>> >> }


\* --------------------------------------------------------------- validator
\* The rejection reasons (the Error column of an error row).
Reason(kind, fields, value) == [kind |-> kind, fields |-> fields, value |-> value]

\* The required-value test without the trimming: a value of blanks passes.
missing_values_untrimmed(row) == {f \in required_fields : row[f] = <<>>}

\* [field for field in required_fields if not row.get(field, '').strip()]
missing_values(row) == {f \in required_fields : strip(row[f]) = <<>>}

\* An error row that reports the values trimmed instead of as the file has them.
make_error_row_trimmed(row_num, row, reason) ==
    [Row    |-> row_num,
     values |-> [i \in 1..Len(required_fields_ordered) |->
                    strip(row[required_fields_ordered[i]])],
     Error  |-> reason]

\* error_row: the row number, the ten raw values in report order, the reason.
make_error_row(row_num, row, reason) ==
    [Row    |-> row_num,
     values |-> [i \in 1..Len(required_fields_ordered) |-> row[required_fields_ordered[i]]],
     Error  |-> reason]

NoErrorRow == [Row |-> 0, values |-> <<>>, Error |-> Reason("none", {}, <<>>)]

\* The row loop without its duplicate test.
is_duplicate_never(overwrite, email, existing) == FALSE

\* The duplicate test of the row loop.
is_duplicate(overwrite, email, existing) == ~overwrite /\ email \in existing

\* The tobacco flag without the case folding: Yes is not yes.
tobacco_flag_case_sensitive(raw) == IF strip(raw) \in TOBACCO_TRUE THEN 1 ELSE 0

\* tobacco_user, as the integer the insert is given.
tobacco_flag(raw) == IF lower(strip(raw)) \in TOBACCO_TRUE THEN 1 ELSE 0

\* The tuple with the email as the file gives it, neither trimmed nor
\* lower-cased.
make_params_raw_email(row, email, effective_date, birth_date, gender, zip_info, zip_code) ==
    << strip(row["First Name"]),
       strip(row["Last Name"]),
       row["Email"],
       strip(row["Current Carrier"]),
       strip(row["Plan Type"]),
       isoformat(effective_date),
       isoformat(birth_date),
       tobacco_flag(row["Tobacco User"]),
       gender,
       zip_info.state,
       zip_code >>

\* The tuple appended to params_list for a row that passed every rule.
make_params(row, email, effective_date, birth_date, gender, zip_info, zip_code) ==
    << strip(row["First Name"]),
       strip(row["Last Name"]),
       email,
       strip(row["Current Carrier"]),
       strip(row["Plan Type"]),
       isoformat(effective_date),
       isoformat(birth_date),
       tobacco_flag(row["Tobacco User"]),
       gender,
       zip_info.state,
       zip_code >>

Rejected(row_num, row, reason) ==
    [outcome |-> "rejected", exc |-> "", params |-> <<>>,
     error_row |-> make_error_row(row_num, row, reason)]

Accepted(params) ==
    [outcome |-> "accepted", exc |-> "", params |-> params, error_row |-> NoErrorRow]

Raised(exc) ==
    [outcome |-> "raised", exc |-> exc, params |-> <<>>, error_row |-> NoErrorRow]

\* One pass of the body of the row loop.  A value None has no strip(): the
\* comprehension that collects the missing values raises AttributeError.
validate_row(row_num, row, overwrite, existing, zip_data) ==
    IF \E f \in required_fields : row[f] = None THEN Raised("AttributeError")
    ELSE IF missing_values(row) # {}
    THEN Rejected(row_num, row, Reason("missing_values", missing_values(row), <<>>))
    ELSE
      LET zip_code == strip(row["ZIP Code"])
          gender   == upper(strip(row["Gender"]))
          email    == lower(strip(row["Email"]))
          eff      == strptime(strip(row["Effective Date"]))
          birth    == strptime(strip(row["Birth Date"]))
      IN  IF zip_code \notin DOMAIN zip_data
          THEN Rejected(row_num, row, Reason("invalid_zip", {}, zip_code))
          ELSE IF gender \notin GENDERS
          THEN Rejected(row_num, row, Reason("invalid_gender", {}, gender))
          ELSE IF is_duplicate(overwrite, email, existing)
          THEN Rejected(row_num, row, Reason("email_exists", {}, row["Email"]))
          ELSE IF ~eff.ok \/ ~birth.ok
          THEN Rejected(row_num, row, Reason("invalid_date", {}, <<>>))
          ELSE Accepted(make_params(row, email, eff, birth, gender,
                                    zip_data[zip_code], zip_code))

\* ----------------------------------------------------------------- storage
\* The snapshot with the stored emails as they are, not lower-cased.
snapshot_emails_case_sensitive(db) == {db[i][EMAIL_COLUMN] : i \in 1..Len(db)}

\* SELECT email FROM contacts, lower-cased into a set.
snapshot_emails(db) == {lower(db[i][EMAIL_COLUMN]) : i \in 1..Len(db)}

\* tuple(item for sublist in params_list for item in sublist)
RECURSIVE flatten(_)
flatten(params_list) ==
    IF params_list = <<>> THEN <<>>
    ELSE Head(params_list) \o flatten(Tail(params_list))

\* An insert that leaves the table as it is when the email is stored already.
insert_row_unless_stored(db, or_replace, row) ==
    IF \E j \in 1..Len(db) : db[j][EMAIL_COLUMN] = row[EMAIL_COLUMN]
    THEN db
    ELSE Append(db, row)

\* One INSERT [OR REPLACE] of one row into contacts: OR REPLACE first deletes
\* the rows that collide with it on a unique column.
insert_row(db, or_replace, row) ==
    LET collides(r) == \E c \in contacts_unique_columns : r[c] = row[c]
        keeps(r) == ~collides(r)
    IN  IF or_replace THEN Append(SelectSeq(db, keeps), row) ELSE Append(db, row)

\* An engine that raises after the row is written.
connection_execute_not_atomic(db, or_replace, flat_params, outcome) ==
    [raised |-> outcome = "raises",
     store  |-> insert_row(db, or_replace, SubSeq(flat_params, 1, NUM_PLACEHOLDERS))]

\* connection.execute(query, flat_params); connection.commit() for a query
\* with NUM_PLACEHOLDERS placeholders in one VALUES group.  The engine binds
\* the first NUM_PLACEHOLDERS parameters.  Given more parameters than
\* placeholders the engine either raises or ignores the rest; given as many,
\* it raises only when storage fails.  Either way the statement takes effect
\* wholly or not at all.
connection_execute(db, or_replace, flat_params, outcome) ==
    IF outcome = "raises"
    THEN [raised |-> TRUE, store |-> db]
    ELSE [raised |-> FALSE,
          store  |-> insert_row(db, or_replace, SubSeq(flat_params, 1, NUM_PLACEHOLDERS))]

\* Database.executemany: both queries of upload_contacts contain VALUES, so
\* the query is sent as it is, with the flattened parameters.
executemany(db, or_replace, params_list, outcome) ==
    IF params_list = <<>> THEN [raised |-> FALSE, store |-> db]
    ELSE connection_execute(db, or_replace, flatten(params_list), outcome)

EngineOutcomes == {"executes", "raises"}

\* --------------------------------------------------------------- responses
Message(kind, exc, columns, n_errors, n_imported) ==
    [kind |-> kind, exc |-> exc, columns |-> columns,
     n_errors |-> n_errors, n_imported |-> n_imported]

NoCsv == [present |-> FALSE, header |-> <<>>, lines |-> <<>>]

\* csv.DictWriter over error_rows: the header and one line per error row.
write_error_csv(errors) ==
    [present |-> TRUE,
     header  |-> <<"Row">> \o required_fields_ordered \o <<"Error">>,
     lines   |-> [i \in 1..Len(errors) |->
                     <<errors[i].Row>> \o errors[i].values \o <<errors[i].Error>>]]

Response(success, message, error_csv, total, errors, valid) ==
    [success |-> success, message |-> message, error_csv |-> error_csv,
     total_rows |-> total, error_rows |-> errors, valid_rows |-> valid]

NoResponse == Response(FALSE, Message("none", "", {}, 0, 0), NoCsv, 0, 0, 0)

\* The return of the header check.
header_failure_response(missing_fields) ==
    Response(FALSE, Message("missing_columns", "", missing_fields, 0, 0), NoCsv, 0, 0, 0)

\* The handler counting only the rejected rows as errors.
insert_failure_response_rejected_only(valid, errors, exc) ==
    Response(FALSE, Message("error_inserting", exc, {}, 0, 0), NoCsv,
             Len(valid) + Len(errors), Len(errors), 0)

\* The return of the handler of an exception of the bulk write.
insert_failure_response(valid, errors, exc) ==
    Response(FALSE, Message("error_inserting", exc, {}, 0, 0), NoCsv,
             Len(valid) + Len(errors), Len(errors) + Len(valid), 0)

\* The return with error rows as it was before success was changed to true.
errors_response_unsuccessful(valid, errors, inserted_count) ==
    Response(FALSE, Message("found_errors", "", {}, Len(errors), inserted_count),
             write_error_csv(errors),
             Len(valid) + Len(errors), Len(errors), inserted_count)

\* The return when there are error rows.
errors_response(valid, errors, inserted_count) ==
    Response(TRUE, Message("found_errors", "", {}, Len(errors), inserted_count),
             write_error_csv(errors),
             Len(valid) + Len(errors), Len(errors), inserted_count)

\* The return when there are no error rows.
success_response(inserted_count) ==
    Response(TRUE, Message("imported", "", {}, 0, inserted_count), NoCsv,
             inserted_count, 0, inserted_count)

\* The outer handler with a fixed message in place of str(e).
exception_response_no_message(exc) ==
    Response(FALSE, Message("exception", "", {}, 0, 0), NoCsv, 0, 0, 0)

\* The return of the outer exception handler: str(e) and zero counts.
exception_response(exc) ==
    Response(FALSE, Message("exception", exc, {}, 0, 0), NoCsv, 0, 0, 0)


\* ------------------------------------------------------------------- state
VARIABLES
    ZIP_DATA,              \* the ZIP table loaded at start-up
    store,                 \* the rows of the contacts table, in id order
    file,                  \* the file the client uploads
    pc,                    \* where the invocation of upload_contacts stands
    overwrite_duplicates,  \* the form flag of the invocation
    existing_emails,       \* the snapshot of stored emails
    row_idx,               \* the data row the loop reads next
    valid_rows,            \* the accepted raw rows
    error_rows,            \* the error rows
    params_list,           \* the tuples for the bulk write
    response,              \* what the invocation returns
    calls,                 \* the storage calls the invocation has issued
    raised,                \* the exception the invocation raised, and where
    store_at_start,        \* the contacts table when the invocation began
    prev,                  \* the invocation completed before this one
    imports                \* the completed invocations

vars == << ZIP_DATA, store, file, pc, overwrite_duplicates, existing_emails,
           row_idx, valid_rows, error_rows, params_list, response, calls,
           raised, store_at_start, prev, imports >>

NotRaised == [at |-> "nowhere", exc |-> ""]

RaisedAt(at, exc) == [at |-> at, exc |-> exc]

\* The difference the wrong way round: headers - required_fields.
missing_columns_swapped(header) == header \ required_fields

\* required_fields - headers
missing_columns(header) == required_fields \ header

NoPrev == [n |-> 0, overwrite |-> FALSE, response |-> NoResponse,
           params_list |-> <<>>, error_rows |-> <<>>,
           store_before |-> <<>>, store_after |-> <<>>]

Init ==
    /\ \E c \in InitConfigs : ZIP_DATA = c[1] /\ store = c[2]
    /\ file \in Files
    /\ pc = "idle"
    /\ overwrite_duplicates = FALSE
    /\ existing_emails = {}
    /\ row_idx = 1
    /\ valid_rows = <<>>
    /\ error_rows = <<>>
    /\ params_list = <<>>
    /\ response = NoResponse
    /\ calls = <<>>
    /\ raised = NotRaised
    /\ store_at_start = store
    /\ prev = NoPrev
    /\ imports = 0

\* upload_contacts up to the header check: read and decode the upload, make
\* the DictReader, validate the header, empty the three lists.
Upload(overwrite) ==
    /\ pc = "idle"
    /\ imports < MaxImports
    /\ overwrite_duplicates' = overwrite
    /\ store_at_start' = store
    /\ calls' = <<>>
    /\ existing_emails' = {}
    /\ row_idx' = 1
    /\ valid_rows' = <<>>
    /\ error_rows' = <<>>
    /\ params_list' = <<>>
    /\ IF file.kind = "undecodable"
       THEN /\ raised' = RaisedAt("decode", "UnicodeDecodeError")
            /\ response' = exception_response("UnicodeDecodeError")
            /\ pc' = "done"
       ELSE IF file.kind = "empty"
       THEN \* csv_reader.fieldnames is None: set(None) raises TypeError
            /\ raised' = RaisedAt("header", "TypeError")
            /\ response' = exception_response("TypeError")
            /\ pc' = "done"
       ELSE IF ~(required_fields \subseteq file.header)
       THEN /\ raised' = NotRaised
            /\ response' = header_failure_response(missing_columns(file.header))
            /\ pc' = "done"
       ELSE /\ raised' = NotRaised
            /\ response' = NoResponse
            /\ pc' = "snapshot"
    /\ UNCHANGED << ZIP_DATA, store, file, prev, imports >>

\* The read of the stored emails issued whatever the overwrite flag says.
SnapshotEmailsAlways ==
    /\ pc = "snapshot"
    /\ calls' = Append(calls, "fetch_all")
    /\ \E outcome \in {"returns", "raises"} :
         IF outcome = "returns"
         THEN /\ existing_emails' = IF overwrite_duplicates THEN {}
                                                            ELSE snapshot_emails(store)
              /\ pc' = "rows"
              /\ UNCHANGED << response, raised >>
         ELSE /\ raised' = RaisedAt("fetch_all", "StorageError")
              /\ response' = exception_response("StorageError")
              /\ pc' = "done"
              /\ UNCHANGED existing_emails
    /\ UNCHANGED << ZIP_DATA, store, file, overwrite_duplicates, row_idx, valid_rows,
                    error_rows, params_list, store_at_start, prev, imports >>

\* The read of the stored emails, issued only when overwrite is disabled.
SnapshotEmails ==
    /\ pc = "snapshot"
    /\ IF overwrite_duplicates
       THEN /\ existing_emails' = {}
            /\ pc' = "rows"
            /\ UNCHANGED << calls, response, raised >>
       ELSE /\ calls' = Append(calls, "fetch_all")
            /\ \E outcome \in {"returns", "raises"} :
                 IF outcome = "returns"
                 THEN /\ existing_emails' = snapshot_emails(store)
                      /\ pc' = "rows"
                      /\ UNCHANGED << response, raised >>
                 ELSE /\ raised' = RaisedAt("fetch_all", "StorageError")
                      /\ response' = exception_response("StorageError")
                      /\ pc' = "done"
                      /\ UNCHANGED existing_emails
    /\ UNCHANGED << ZIP_DATA, store, file, overwrite_duplicates, row_idx, valid_rows,
                    error_rows, params_list, store_at_start, prev, imports >>

\* One pass of the row loop: row number row_idx + 1, the header being row 1.
ValidateRow ==
    /\ pc = "rows"
    /\ row_idx <= Len(file.rows)
    /\ LET row == file.rows[row_idx]
           v == validate_row(row_idx + 1, row, overwrite_duplicates,
                             existing_emails, ZIP_DATA)
       IN  IF v.outcome = "raised"
           THEN /\ raised' = RaisedAt("row", v.exc)
                /\ response' = exception_response(v.exc)
                /\ pc' = "done"
                /\ UNCHANGED << row_idx, valid_rows, error_rows, params_list >>
           ELSE IF v.outcome = "rejected"
           THEN /\ row_idx' = row_idx + 1
                /\ error_rows' = Append(error_rows, v.error_row)
                /\ UNCHANGED << valid_rows, params_list, response, pc, raised >>
           ELSE /\ row_idx' = row_idx + 1
                /\ params_list' = Append(params_list, v.params)
                /\ valid_rows' = Append(valid_rows, row)
                /\ UNCHANGED << error_rows, response, pc, raised >>
    /\ UNCHANGED << ZIP_DATA, store, file, overwrite_duplicates, existing_emails,
                    calls, store_at_start, prev, imports >>

\* After the loop: the bulk write when params_list is not empty, then the
\* return that fits.
InsertValidRows ==
    /\ pc = "rows"
    /\ row_idx > Len(file.rows)
    /\ IF params_list = <<>>
       THEN /\ response' = IF error_rows # <<>>
                           THEN errors_response(valid_rows, error_rows, 0)
                           ELSE success_response(0)
            /\ UNCHANGED << store, calls, raised >>
       ELSE /\ calls' = Append(calls, "executemany")
            /\ \E outcome \in EngineOutcomes :
                 LET w == executemany(store, overwrite_duplicates, params_list, outcome)
                     inserted_count == Len(params_list)
                 IN  /\ store' = w.store
                     /\ raised' = IF w.raised
                                  THEN RaisedAt("executemany", "StorageError")
                                  ELSE NotRaised
                     /\ response' =
                          IF w.raised
                          THEN insert_failure_response(valid_rows, error_rows, "StorageError")
                          ELSE IF error_rows # <<>>
                          THEN errors_response(valid_rows, error_rows, inserted_count)
                          ELSE success_response(inserted_count)
    /\ pc' = "done"
    /\ UNCHANGED << ZIP_DATA, file, overwrite_duplicates, existing_emails, row_idx,
                    valid_rows, error_rows, params_list, store_at_start, prev, imports >>

\* The response is sent; the next request may come.
Return ==
    /\ pc = "done"
    /\ pc' = "idle"
    /\ imports' = imports + 1
    /\ prev' = [n |-> imports + 1, overwrite |-> overwrite_duplicates,
                response |-> response, params_list |-> params_list,
                error_rows |-> error_rows,
                store_before |-> store_at_start, store_after |-> store]
    /\ UNCHANGED << ZIP_DATA, store, file, overwrite_duplicates, existing_emails,
                    row_idx, valid_rows, error_rows, params_list, response, calls,
                    raised, store_at_start >>

Next ==
    \/ \E overwrite \in BOOLEAN : Upload(overwrite)
    \/ SnapshotEmails
    \/ ValidateRow
    \/ InsertValidRows
    \/ Return

Spec == Init /\ [][Next]_vars


\* The contact another client creates while imports run: its email is a@x.
CreatedContact ==
    << <<"C","y">>, <<"D","o">>, <<"a","@","x">>, <<"C">>, <<"N">>,
       <<"2","0","2","1","-","0","1","-","0","1">>,
       <<"1","9","4","1","-","0","1","-","0","1">>, 0, <<"M">>, <<"C","A">>, <<"1">> >>

\* The contacts create_contact has stored.
Created(db) == {j \in 1..Len(db) : db[j] = CreatedContact}

\* create_contact: one INSERT and its commit on the shared connection, from a
\* worker thread, at any point of an import; no check of the stored emails.
CreateContact ==
    /\ Cardinality(Created(store)) < MaxCreates
    /\ store' = Append(store, CreatedContact)
    /\ UNCHANGED << ZIP_DATA, file, pc, overwrite_duplicates, existing_emails,
                    row_idx, valid_rows, error_rows, params_list, response, calls,
                    raised, store_at_start, prev, imports >>

\* Imports, with create_contact running beside them.
NextConc ==
    \/ Next
    \/ CreateContact

\* The files of the behaviours with create_contact: every required column and
\* rows the validator has nothing against but, possibly, their email.
ConcFiles ==
    { CsvFile(required_fields \cup {"Notes"}, rows) :
          rows \in UNION { [1..n -> {RowA, RowB}] : n \in 0..MaxRows } }

InitConc == Init /\ ZIP_DATA = ZipTable /\ file \in ConcFiles

SpecConc == InitConc /\ [][NextConc]_vars

\* The imports of a client that never sets overwrite_duplicates.
NextPlain ==
    \/ Upload(FALSE)
    \/ SnapshotEmails
    \/ ValidateRow
    \/ InsertValidRows
    \/ Return

SpecPlain == Init /\ [][NextPlain]_vars

\* ------------------------------------------------------ the validator rules
\* The rules of the row validator, one predicate each: TRUE where the row
\* fails the rule.
FailsRequired(row) == \E f \in required_fields : strip(row[f]) = <<>>

FailsZip(row) == strip(row["ZIP Code"]) \notin DOMAIN ZIP_DATA

FailsGender(row) == upper(strip(row["Gender"])) \notin { <<"M">>, <<"F">> }

FailsDuplicate(row) ==
    ~overwrite_duplicates /\ lower(strip(row["Email"])) \in existing_emails

FailsDate(row) ==
    \/ ~strptime(strip(row["Effective Date"])).ok
    \/ ~strptime(strip(row["Birth Date"])).ok

FailsAnyRule(row) ==
    FailsRequired(row) \/ FailsZip(row) \/ FailsGender(row)
        \/ FailsDuplicate(row) \/ FailsDate(row)

\* The reason of the first rule the row fails, in the fixed order.
FirstFailingReason(row) ==
    IF FailsRequired(row)
    THEN Reason("missing_values", {f \in required_fields : strip(row[f]) = <<>>}, <<>>)
    ELSE IF FailsZip(row) THEN Reason("invalid_zip", {}, strip(row["ZIP Code"]))
    ELSE IF FailsGender(row) THEN Reason("invalid_gender", {}, upper(strip(row["Gender"])))
    ELSE IF FailsDuplicate(row) THEN Reason("email_exists", {}, row["Email"])
    ELSE IF FailsDate(row) THEN Reason("invalid_date", {}, <<>>)
    ELSE Reason("none", {}, <<>>)

\* The data rows the loop has been through, as indices into the file.
Processed == 1..(row_idx - 1)

\* The invocation is in the row loop or has left it by its end.
PastSnapshot ==
    \/ pc = "rows"
    \/ pc = "done" /\ response.message.kind \in {"error_inserting", "found_errors", "imported"}

\* The row loop has ended.
LoopEnded ==
    \/ pc = "rows" /\ row_idx > Len(file.rows)
    \/ pc = "done" /\ response.message.kind \in {"error_inserting", "found_errors", "imported"}

\* The k-th element of a finite set of integers, in increasing order.
Nth(S, k) == CHOOSE x \in S : Cardinality({y \in S : y < x}) = k - 1

\* The data rows an error row stands for.
RejectedIdx == {error_rows[i].Row - 1 : i \in 1..Len(error_rows)}

\* ------------------------------------------------------------------ claims
\* C1: on every return path of upload_contacts the returned counts satisfy
\* valid_rows + error_rows = total_rows.
C1_CountsConsistent ==
    pc = "done" => response.valid_rows + response.error_rows = response.total_rows

C1_Witness ==
    /\ pc = "done"
    /\ response.message.kind = "error_inserting"
    /\ valid_rows # <<>>
    /\ error_rows # <<>>

\* C2: through the row loop and after it every data row read is in exactly
\* one of the accepted list (with its one tuple in params_list, at the same
\* position) and the rejected list, and the accepted rows are exactly the
\* rows that fail no rule, so no row that fails a rule reaches the bulk write.
C2_Partition ==
    PastSnapshot =>
        LET passing == {k \in Processed : ~FailsAnyRule(file.rows[k])}
        IN  /\ RejectedIdx = Processed \ passing
            /\ Len(error_rows) = Cardinality(Processed \ passing)
            /\ Len(valid_rows) = Cardinality(passing)
            /\ \A i \in 1..Len(valid_rows) : valid_rows[i] = file.rows[Nth(passing, i)]
            /\ Len(params_list) = Len(valid_rows)
            /\ \A i \in 1..Len(params_list) :
                 /\ params_list[i][EMAIL_COLUMN] = lower(strip(valid_rows[i]["Email"]))
                 /\ params_list[i][NUM_PLACEHOLDERS] = strip(valid_rows[i]["ZIP Code"])

C2_Witness ==
    /\ pc = "rows"
    /\ row_idx > Len(file.rows)
    /\ valid_rows # <<>>
    /\ error_rows # <<>>
    /\ existing_emails # {}

\* C3: an error row carries the reason of the first rule its row fails in the
\* order required value, ZIP, gender, duplicate email (overwrite disabled
\* only), date, and the error rows stand in file order.
C3_FirstFailingRule ==
    PastSnapshot =>
        /\ \A i \in 1..Len(error_rows) :
             /\ error_rows[i].Row - 1 \in 1..Len(file.rows)
             /\ error_rows[i].Error = FirstFailingReason(file.rows[error_rows[i].Row - 1])
        /\ \A i, j \in 1..Len(error_rows) : i < j => error_rows[i].Row < error_rows[j].Row

\* A row with a blank required value and an invalid ZIP is reported as
\* missing values, and a row with a stored email and a bad date as a duplicate.
C3_Witness ==
    /\ LoopEnded
    /\ ~overwrite_duplicates
    /\ file.rows = <<RowMissingAndBadZip, RowBadDate>>
    /\ Len(error_rows) = 2
    /\ error_rows[1].Error.kind = "missing_values"
    /\ error_rows[2].Error.kind = "email_exists"

\* C4: a header that lacks a required column fails the import at once:
\* success is false, the message names the missing columns, the counts are
\* zero, no row is validated and no storage call is issued.
C4_HeaderFailure ==
    (file.kind = "csv" /\ ~(required_fields \subseteq file.header)) =>
        /\ pc \in {"idle", "done"}
        /\ calls = <<>>
        /\ store = store_at_start
        /\ row_idx = 1 /\ valid_rows = <<>> /\ error_rows = <<>> /\ params_list = <<>>
        /\ pc = "done" =>
             /\ ~response.success
             /\ response.message.kind = "missing_columns"
             /\ response.message.columns = required_fields \ file.header
             /\ response.message.columns # {}
             /\ response.total_rows = 0
             /\ response.error_rows = 0
             /\ response.valid_rows = 0

C4_Witness ==
    /\ pc = "done"
    /\ file.kind = "csv"
    /\ "Email" \notin file.header
    /\ file.rows # <<>>
    /\ store # <<>>

\* C5: when the bulk write raises, the contacts table is what it was when the
\* import began, valid_rows is 0 and error_rows = total_rows = accepted +
\* rejected.
C5_WriteFailure ==
    (pc = "done" /\ raised.at = "executemany") =>
        /\ store = store_at_start
        /\ ~response.success
        /\ response.valid_rows = 0
        /\ response.error_rows = Len(valid_rows) + Len(error_rows)
        /\ response.total_rows = Len(valid_rows) + Len(error_rows)

C5_Witness ==
    /\ pc = "done"
    /\ raised.at = "executemany"
    /\ Len(valid_rows) = 2
    /\ store_at_start # <<>>


\* C6 as stated: every structural failure, the exception of the bulk write
\* included, is reported with success false, the three counts zero and the
\* raw error message.
C6_AllFailuresZeroFilled ==
    (pc = "done" /\ raised.at # "nowhere") =>
        response = Response(FALSE, Message("exception", raised.exc, {}, 0, 0), NoCsv, 0, 0, 0)

\* C6 amended: a failure outside the bulk write (undecodable or empty
\* upload, a row with an absent value, the snapshot read) is reported with
\* success false, zero counts and the raw message; an exception of the bulk
\* write is reported with success false, valid_rows 0, error_rows =
\* total_rows = accepted + rejected and the message "Error inserting
\* contacts: <raw message>"; every path ends in a response.
C6_StructuralFailure ==
    pc = "done" =>
        /\ response.message.kind # "none"
        /\ raised.at \in {"decode", "header", "fetch_all", "row"} =>
             response = Response(FALSE, Message("exception", raised.exc, {}, 0, 0),
                                 NoCsv, 0, 0, 0)
        /\ raised.at = "executemany" =>
             /\ ~response.success
             /\ response.message = Message("error_inserting", raised.exc, {}, 0, 0)
             /\ response.valid_rows = 0
             /\ response.error_rows = Len(valid_rows) + Len(error_rows)
             /\ response.total_rows = Len(valid_rows) + Len(error_rows)
        /\ raised.at = "nowhere" => response.message.exc = ""

\* A row with an absent value after a row that was rejected: the counts
\* returned are zero.
C6_Witness ==
    /\ pc = "done"
    /\ raised = RaisedAt("row", "AttributeError")
    /\ error_rows # <<>>

\* The data row k stands in the error report returned.
InReport(k) ==
    /\ response.error_csv.present
    /\ \E i \in 1..Len(response.error_csv.lines) : response.error_csv.lines[i][1] = k + 1

\* C7: for an import past the header check, a data row is in the returned
\* error report if and only if it failed a rule or the bulk write failed.
C7_ReportIffFailed ==
    (pc = "done" /\ response.message.kind \in {"error_inserting", "found_errors", "imported"}) =>
        \A k \in 1..Len(file.rows) :
            InReport(k) <=> (FailsAnyRule(file.rows[k]) \/ raised.at = "executemany")

\* The second of two imports of the file, overwrite disabled, has returned,
\* and the first returned success.
SecondImportDone ==
    /\ prev.n >= 1
    /\ prev.response.success
    /\ pc = "done"
    /\ ~overwrite_duplicates
    /\ response.success

StoredEmails(db) == {lower(db[j][EMAIL_COLUMN]) : j \in 1..Len(db)}

\* The data rows the previous import rejected.
PrevRejectedIdx == {prev.error_rows[i].Row - 1 : i \in 1..Len(prev.error_rows)}

ContentOf(db) ==
    [records   |-> {db[j] : j \in 1..Len(db)},
     per_email |-> [e \in {db[j][EMAIL_COLUMN] : j \in 1..Len(db)} |->
                       Cardinality({j \in 1..Len(db) : db[j][EMAIL_COLUMN] = e})]]

\* C9: importing the file a second time with overwrite enabled leaves the
\* stored content as it was after the first import with overwrite enabled.
C9_OverwriteIdempotent ==
    ( /\ prev.n >= 1 /\ prev.overwrite /\ prev.response.success
      /\ pc = "done" /\ overwrite_duplicates /\ response.success ) =>
        ContentOf(store) = ContentOf(prev.store_after)

\* C10: with overwrite enabled, after the bulk write the contacts table holds
\* exactly one contact with the email of an accepted row that was stored
\* before, and it carries imported values.
C10_OverwriteSupersedes ==
    (pc = "done" /\ overwrite_duplicates /\ response.success /\ params_list # <<>>) =>
        \A i \in 1..Len(params_list) :
            (\E j \in 1..Len(store_at_start) :
                 store_at_start[j][EMAIL_COLUMN] = params_list[i][EMAIL_COLUMN]) =>
                /\ Cardinality({j \in 1..Len(store) :
                       store[j][EMAIL_COLUMN] = params_list[i][EMAIL_COLUMN]}) = 1
                /\ \A j \in 1..Len(store) :
                       store[j][EMAIL_COLUMN] = params_list[i][EMAIL_COLUMN] =>
                           \E m \in 1..Len(params_list) : store[j] = params_list[m]

\* The storage calls the invocation has issued, as a set.
CallsIssued == {calls[i] : i \in 1..Len(calls)}

\* The file is a CSV text whose header has every required column.
HeaderValid == file.kind = "csv" /\ missing_columns(file.header) = {}

\* C11: a data row never aborts the batch: whatever its values, a required
\* field absent from a short line included, no exception is raised while the
\* rows are validated, and an import whose storage calls succeed validates
\* every row and returns success = true.
C11_RejectionNeverAborts ==
    HeaderValid =>
        /\ raised.at # "row"
        /\ (pc = "done" /\ raised.at \notin {"fetch_all", "executemany"}) =>
               /\ response.success
               /\ row_idx = Len(file.rows) + 1
               /\ Len(valid_rows) + Len(error_rows) = Len(file.rows)

\* C12: an import that passes header validation and raises no exception
\* returns success = true: with no data rows total_rows is 0 and there is no
\* error report; with every row rejected valid_rows is 0, the report has one
\* line per row and no bulk write is issued; with no row rejected error_rows
\* is 0 and there is no error report.
C12_SuccessWhateverRejected ==
    (pc = "done" /\ HeaderValid /\ raised.at = "nowhere") =>
        LET n == Len(file.rows)
            failing == {k \in 1..n : FailsAnyRule(file.rows[k])}
        IN  /\ response.success
            /\ n = 0 =>
                 /\ response.total_rows = 0
                 /\ ~response.error_csv.present
            /\ (n > 0 /\ failing = 1..n) =>
                 /\ response.valid_rows = 0
                 /\ response.error_rows = n
                 /\ response.error_csv.present
                 /\ Len(response.error_csv.lines) = n
                 /\ "executemany" \notin CallsIssued
                 /\ store = store_at_start
            /\ failing = {} =>
                 /\ response.error_rows = 0
                 /\ ~response.error_csv.present

\* Two rows, both rejected, and the import has returned success.
C12_Witness ==
    /\ pc = "done"
    /\ HeaderValid
    /\ raised.at = "nowhere"
    /\ Len(file.rows) = 2
    /\ Len(error_rows) = 2
    /\ response.success
    /\ response.error_csv.present

\* C13: the error report has one line per rejected row, in file order; the
\* line of the k-th data row starts with row number k + 1, carries the ten
\* required columns with the values as the file has them, neither trimmed nor
\* case-changed, and ends with the single reason of the row.
C13_ErrorReportLines ==
    (pc = "done" /\ response.error_csv.present) =>
        LET n == Len(file.rows)
            failing == {k \in 1..n : FailsAnyRule(file.rows[k])}
            report == response.error_csv
            cols == Len(required_fields_ordered)
        IN  /\ report.header = <<"Row">> \o required_fields_ordered \o <<"Error">>
            /\ Len(report.lines) = Cardinality(failing)
            /\ \A i \in 1..Len(report.lines) :
                 LET k == Nth(failing, i)
                     line == report.lines[i]
                 IN  /\ Len(line) = cols + 2
                     /\ line[1] = k + 1
                     /\ \A j \in 1..cols :
                          line[1 + j] = file.rows[k][required_fields_ordered[j]]
                     /\ line[cols + 2] = FirstFailingReason(file.rows[k])

\* A report of two lines, the first for a row whose first name is a blank,
\* reported as the blank.
C13_Witness ==
    /\ pc = "done"
    /\ response.error_csv.present
    /\ file.rows = <<RowMissingAndBadZip, RowBadDate>>
    /\ ~overwrite_duplicates
    /\ Len(response.error_csv.lines) = 2
    /\ response.error_csv.lines[1][1] = 2
    /\ response.error_csv.lines[1][2] = <<" ">>
    /\ response.error_csv.lines[2][1] = 3

\* The row passes the three rules that come before the duplicate rule.
PassesBeforeDuplicate(row) == ~FailsRequired(row) /\ ~FailsZip(row) /\ ~FailsGender(row)

\* The row's email, trimmed and lower-cased, is the lower-cased form of an
\* email the contacts table held when the invocation began.
SharesStoredEmail(row) ==
    \E j \in 1..Len(store_at_start) :
        lower(strip(row["Email"])) = lower(store_at_start[j][EMAIL_COLUMN])

\* The error row of data row k says the email already exists.
RejectedAsDuplicate(k) ==
    \E i \in 1..Len(error_rows) :
        error_rows[i].Row = k + 1 /\ error_rows[i].Error.kind = "email_exists"

\* C14: with overwrite disabled a row that passes the required-value, ZIP and
\* gender rules is rejected as a duplicate exactly when its trimmed,
\* lower-cased email is the lower-cased form of a stored email of the
\* snapshot, and the reason quotes the email as the file has it; every row
\* sharing a stored email is rejected, so when all rows do nothing is
\* inserted; with overwrite enabled no row is rejected as a duplicate.
C14_DuplicateRule ==
    PastSnapshot =>
        /\ \A k \in Processed :
             LET row == file.rows[k]
             IN  /\ PassesBeforeDuplicate(row) =>
                      (RejectedAsDuplicate(k) <=>
                           (~overwrite_duplicates /\ SharesStoredEmail(row)))
                 /\ (~overwrite_duplicates /\ SharesStoredEmail(row)) => k \in RejectedIdx
        /\ \A i \in 1..Len(error_rows) :
             error_rows[i].Error.kind = "email_exists" =>
                 /\ ~overwrite_duplicates
                 /\ error_rows[i].Error.value = file.rows[error_rows[i].Row - 1]["Email"]
        /\ ( /\ LoopEnded
             /\ ~overwrite_duplicates
             /\ \A k \in 1..Len(file.rows) : SharesStoredEmail(file.rows[k]) ) =>
               /\ params_list = <<>>
               /\ pc = "done" =>
                    /\ "executemany" \notin CallsIssued
                    /\ store = store_at_start
                    /\ response.valid_rows = 0

\* Both rows of the file carry the stored email A@x, one as a@x and one as
\* " A@x"; both are rejected, the second with its email quoted as written.
C14_Witness ==
    /\ pc = "done"
    /\ ~overwrite_duplicates
    /\ store_at_start = <<StoredContactA>>
    /\ file.rows = <<RowA, RowA2>>
    /\ Len(error_rows) = 2
    /\ error_rows[1].Error.kind = "email_exists"
    /\ error_rows[2].Error = Reason("email_exists", {}, <<" ","A","@","x">>)
    /\ store = store_at_start

\* The inputs the tobacco flag is 1 for, after trimming and lower-casing.
TobaccoYes == { <<"y","e","s">>, <<"t","r","u","e">>, <<"1">>, <<"y">> }

\* C15: every tuple handed to the bulk write is normalized: the email is the
\* row's email trimmed and lower-cased, the gender is M or F, the zip_code is
\* a key of the ZIP table and the state is the table's state for it, and
\* tobacco_user is 1 exactly when the trimmed, lower-cased input is one of
\* yes, true, 1, y, and 0 otherwise; a non-blank tobacco value never causes a
\* rejection: a rejected row is rejected with any other non-blank value too.
C15_Normalized ==
    PastSnapshot =>
        /\ Len(params_list) = Len(valid_rows)
        /\ \A i \in 1..Len(params_list) :
             LET p == params_list[i]
                 row == valid_rows[i]
             IN  /\ Len(p) = 11
                 /\ p[3] = lower(strip(row["Email"]))
                 /\ p[9] \in { <<"M">>, <<"F">> }
                 /\ p[11] \in DOMAIN ZIP_DATA
                 /\ p[10] = ZIP_DATA[p[11]].state
                 /\ p[8] \in {0, 1}
                 /\ p[8] = 1 <=> lower(strip(row["Tobacco User"])) \in TobaccoYes
        /\ \A k \in Processed \cap RejectedIdx :
             \A v \in { <<"Y","e","s">>, <<"n","o">>, <<"?">> } :
                 FailsAnyRule([file.rows[k] EXCEPT !["Tobacco User"] = v])
        /\ \A i \in 1..Len(error_rows) :
             error_rows[i].Error.kind \in
                 {"missing_values", "invalid_zip", "invalid_gender",
                  "email_exists", "invalid_date"}

\* Two tuples are ready for the bulk write, one with the flag 1 (Yes) and one
\* with the flag 0 (no), the second with its email, gender and ZIP normalized.
C15_Witness ==
    /\ pc = "rows"
    /\ row_idx > Len(file.rows)
    /\ file.rows = <<RowA, RowA2>>
    /\ Len(params_list) = 2
    /\ params_list[1][8] = 1
    /\ params_list[2][8] = 0
    /\ params_list[2][3] = <<"a","@","x">>
    /\ params_list[2][9] = <<"F">>
    /\ params_list[2][10] = <<"N","Y">>

\* C16: when the load of the reference data failed the ZIP table is empty and
\* stays so, and every import of a readable file with the required columns,
\* its snapshot read succeeding, returns success = true with nothing written
\* and a report of all its rows, each row that passes the required-value rule
\* being rejected as an invalid ZIP code with the trimmed ZIP quoted.
C16_EmptyZipTable ==
    (DOMAIN ZIP_DATA = {} /\ HeaderValid /\ pc = "done" /\ raised.at # "fetch_all") =>
        /\ response.success
        /\ store = store_at_start
        /\ "executemany" \notin CallsIssued
        /\ response.valid_rows = 0
        /\ response.error_rows = Len(file.rows)
        /\ file.rows # <<>> =>
             /\ response.error_csv.present
             /\ Len(response.error_csv.lines) = Len(file.rows)
        /\ \A i \in 1..Len(error_rows) :
             LET row == file.rows[error_rows[i].Row - 1]
             IN  ~FailsRequired(row) =>
                     error_rows[i].Error = Reason("invalid_zip", {}, strip(row["ZIP Code"]))

C18_ReportedEqualsStored ==
    (pc = "done" /\ response.success) =>
        /\ response.valid_rows = Len(store) - Len(store_at_start)
        /\ \A i \in 1..Len(params_list) :
             \E j \in 1..Len(store) : store[j] = params_list[i]

====
